---- MODULE Spec2Model ----
(***************************************************************************)
(* A state-machine model of mem_pool.c: the pool registry (pool_store),    *)
(* the pool manager with its node heap, its linked list of nodes and its   *)
(* gap index, and the user-facing calls mem_init, mem_pool_open,           *)
(* mem_pool_close, mem_new_alloc, mem_del_alloc and mem_inspect_pool.      *)
(*                                                                         *)
(* Conventions.                                                            *)
(*  - A node pointer is the node's slot in node_heap; NULL is -1.          *)
(*  - alloc_record.mem is the offset from pool.mem; a NULL mem is -1 (it   *)
(*    compares below every address of the pool, as address 0 does).        *)
(*  - An unsigned field is held as its two's-complement representative:    *)
(*    -1 stands for UINT_MAX (SIZE_MAX), so ++ and -- need no wrapping and *)
(*    unsigned comparisons go through ULess.                               *)
(*  - The calloc calls of mem_pool_open and mem_inspect_pool succeed.      *)
(*  - fault records undefined behaviour of the manager's gap index: "oob"  *)
(*    when an access fell outside the storage that realloc left but inside *)
(*    the block first obtained from calloc (the access then behaves as if  *)
(*    the storage were still there, or the process dies), "crash" when the *)
(*    access can only end the process (a NULL dereference, an access far   *)
(*    outside the block).                                                  *)
(***************************************************************************)
EXTENDS Integers, Sequences, FiniteSets, Bags, TLC

\* ---------------------------------------------------------------- bounds
PoolSize == 4
MaxPools == 2
MaxShrink == 4
MaxOpens == 17

\* ------------------------------------------------------ program constants
MEM_EXPAND_FACTOR == 2
MEM_POOL_STORE_INIT_CAPACITY == 20
MEM_NODE_HEAP_INIT_CAPACITY == 40
MEM_GAP_IX_INIT_CAPACITY == 40
MEM_GAP_IX_EXPAND_FACTOR == 2
\* sizeof(pool_store), a pointer, and sizeof(gap_t), a size_t and a pointer
\* (4 and 8 where pointers have 32 bits: the quotients are the same)
SizeofPtr == 8
SizeofGap == 16

NULL == -1
FIRST_FIT == "FIRST_FIT"
BEST_FIT == "BEST_FIT"
ALLOC_OK == "ALLOC_OK"
ALLOC_NOT_FREED == "ALLOC_NOT_FREED"
ALLOC_CALLED_AGAIN == "ALLOC_CALLED_AGAIN"

MgrIds == 1 .. MaxPools
ReqSizes == 0 .. PoolSize
Policies == {FIRST_FIT, BEST_FIT}

\* ----------------------------------------------------------------- helpers
Min(S) == CHOOSE x \in S : \A y \in S : x <= y

\* a < b for unsigned values held as two's-complement representatives
ULess(a, b) == IF (a >= 0) = (b >= 0) THEN a < b ELSE b < 0

\* ((float) occupancy / capacity) > 0.75 for unsigned occupancy and capacity
FillExceeded(occupancy, capacity) ==
    IF occupancy >= 0 /\ capacity >= 0 THEN 4 * occupancy > 3 * capacity
    ELSE occupancy < 0

\* the worse of two fault marks
Worse(f, g) ==
    IF f = "crash" \/ g = "crash" THEN "crash"
    ELSE IF f = "oob" \/ g = "oob" THEN "oob" ELSE "none"

\* calloc'ed node and gap entry
ZeroNode ==
    [mem |-> NULL, size |-> 0, used |-> 0, allocated |-> 0, next |-> NULL, prev |-> NULL]
ZeroGap == [size |-> 0, node |-> NULL]

\* An array obtained from calloc is held as the sequence of its entries up to
\* the last one that differs from the zero entry; entry i of the array is
\* element i + 1 of the sequence, and every entry past the sequence is zero.
RECURSIVE Trim(_, _)
Trim(arr, zero) ==
    IF Len(arr) > 0 /\ arr[Len(arr)] = zero
    THEN Trim(SubSeq(arr, 1, Len(arr) - 1), zero) ELSE arr

At(arr, i, zero) == IF i + 1 <= Len(arr) THEN arr[i + 1] ELSE zero

Put(arr, i, v, zero) ==
    Trim([k \in 1 .. (IF i + 1 > Len(arr) THEN i + 1 ELSE Len(arr)) |->
            IF k = i + 1 THEN v ELSE At(arr, k - 1, zero)], zero)

\* node_heap[i] and gap_ix[i] of manager m
Node(m, i) == At(m.node_heap, i, ZeroNode)
Gap(m, i) == At(m.gap_ix, i, ZeroGap)

\* m with node_heap[i] = v, and with gap_ix[i] = v
SetNode(m, i, v) == [m EXCEPT !.node_heap = Put(@, i, v, ZeroNode)]
SetGap(m, i, v) == [m EXCEPT !.gap_ix = Put(@, i, v, ZeroGap)]

\* the fault of an access to gap_ix[i] of manager m
GapAccess(m, i) ==
    IF i < 0 \/ i >= MEM_GAP_IX_INIT_CAPACITY THEN "crash"
    ELSE IF i >= m.gap_ix_extent THEN "oob" ELSE "none"

\* -------------------------------------------------------------- gap index
RECURSIVE GapPosition(_, _, _)
\* the search loop of _mem_remove_from_gap_ix from entry i on: the position
\* of node among the first num_gaps entries, NULL when it is not there
GapPosition(m, node, i) ==
    IF ~ULess(i, m.num_gaps) \/ i >= MEM_GAP_IX_INIT_CAPACITY THEN NULL
    ELSE IF Gap(m, i).node = node THEN i
    ELSE GapPosition(m, node, i + 1)

\* _mem_remove_from_gap_ix once its search loop has ended at pos: the entries
\* after position index (0 when the search found nothing) move down by one,
\* num_gaps and gap_ix_capacity go down by one, entry num_gaps is zeroed
RemoveAt(m, pos) ==
    LET ng == m.num_gaps
        cap == m.gap_ix_capacity
        index == IF pos = NULL THEN 0 ELSE pos
        scanFault ==
            IF pos # NULL THEN GapAccess(m, index)
            ELSE IF ng = 0 THEN "none" ELSE GapAccess(m, ng - 1)
        \* the shift loop copies gap_ix[i + 1] to gap_ix[i], i from index to cap - 2
        shiftFault == IF ULess(index, cap - 1) THEN GapAccess(m, cap - 1) ELSE "none"
        shifted == [k \in 1 .. Len(m.gap_ix) |->
                      IF k - 1 >= index /\ k - 1 < cap - 1
                      THEN Gap(m, k) ELSE Gap(m, k - 1)]
    IN  [m EXCEPT !.gap_ix = IF ng - 1 < 0 THEN Trim(shifted, ZeroGap)
                             ELSE Put(shifted, ng - 1, ZeroGap, ZeroGap),
                  !.num_gaps = ng - 1,
                  !.gap_ix_capacity = cap - 1,
                  !.fault = Worse(Worse(@, scanFault),
                                  Worse(shiftFault, GapAccess(m, ng - 1)))]

\* _mem_remove_from_gap_ix: drop node's entry (entry 0 when node has none)
RemoveFromGapIx(m, node) == RemoveAt(m, GapPosition(m, node, 0))

\* _mem_resize_gap_ix: realloc to MEM_GAP_IX_EXPAND_FACTOR * sizeof(pool_store)
\* bytes, double the capacity, zero gap_ix[num_gaps .. capacity - 1]
ResizeGapIx(m) ==
    IF ~FillExceeded(m.num_gaps, m.gap_ix_capacity) THEN m
    ELSE
      LET extent == (MEM_GAP_IX_EXPAND_FACTOR * SizeofPtr) \div SizeofGap
          cap2 == m.gap_ix_capacity * MEM_GAP_IX_EXPAND_FACTOR
          m1 == [m EXCEPT !.gap_ix_extent = extent, !.gap_ix_capacity = cap2]
          loopRuns == ULess(m.num_gaps, cap2)
          loopFault == IF loopRuns
                       THEN Worse(GapAccess(m1, m.num_gaps), GapAccess(m1, cap2 - 1))
                       ELSE "none"
      IN  [m1 EXCEPT !.gap_ix = Trim([k \in 1 .. Len(m.gap_ix) |->
                                        IF loopRuns /\ k - 1 >= m.num_gaps /\ k - 1 < cap2
                                        THEN ZeroGap ELSE m.gap_ix[k]], ZeroGap),
                     !.fault = Worse(@, loopFault)]

\* the comparison of _mem_sort_gap_ix between entries i and i - 1
SortSwaps(m, i) ==
    \/ Node(m, Gap(m, i).node).size < Node(m, Gap(m, i - 1).node).size
    \/ Node(m, Gap(m, i).node).mem < Node(m, Gap(m, i - 1).node).mem

RECURSIVE SortPass(_, _)
\* the loop of _mem_sort_gap_ix from position i down to 1; the process dies
\* when an entry the loop dereferences has a NULL node
SortPass(m, i) ==
    IF i <= 0 THEN m
    ELSE IF Gap(m, i).node = NULL \/ Gap(m, i - 1).node = NULL
         THEN [m EXCEPT !.fault = "crash"]
    ELSE IF SortSwaps(m, i)
         THEN SortPass(SetGap(SetGap(m, i - 1, Gap(m, i)), i, Gap(m, i - 1)), i - 1)
         ELSE SortPass(m, i - 1)

\* _mem_sort_gap_ix
SortGapIx(m) ==
    IF m.num_gaps - 1 <= 0 THEN m
    ELSE IF m.num_gaps > MEM_GAP_IX_INIT_CAPACITY THEN [m EXCEPT !.fault = "crash"]
    ELSE SortPass([m EXCEPT !.fault = Worse(@, GapAccess(m, m.num_gaps - 1))],
                  m.num_gaps - 1)

\* _mem_add_to_gap_ix after the resize: append, count, sort
AppendGap(m, size, node) ==
    IF GapAccess(m, m.num_gaps) = "crash" THEN [m EXCEPT !.fault = "crash"]
    ELSE SortGapIx([SetGap(m, m.num_gaps, [size |-> size, node |-> node])
                      EXCEPT !.num_gaps = @ + 1,
                             !.fault = Worse(@, GapAccess(m, m.num_gaps))])

\* _mem_add_to_gap_ix
AddToGapIx(m, size, node) == AppendGap(ResizeGapIx(m), size, node)

\* ----------------------------------------------------- linked-list statements
\* i->next = v, i->prev = v
SetNext(m, i, v) == SetNode(m, i, [Node(m, i) EXCEPT !.next = v])
SetPrev(m, i, v) == SetNode(m, i, [Node(m, i) EXCEPT !.prev = v])

\* i->next = j->next, and j->next->prev = v
CopyNext(m, i, j) == SetNext(m, i, Node(m, j).next)
SetPrevOfNext(m, j, v) == SetPrev(m, Node(m, j).next, v)

\* n->next = NULL; n->prev = NULL
ClearLinks(m, n) == SetNode(m, n, [Node(m, n) EXCEPT !.next = NULL, !.prev = NULL])

\* mutant: the node is released and used_nodes is not counted down
Release_KeepsCount(m, n) ==
    SetNode(m, n, [Node(m, n) EXCEPT !.used = 0, !.size = 0, !.mem = NULL])

\* n->used = 0; n->alloc_record.size = 0; n->alloc_record.mem = NULL;
\* pool_mgr->used_nodes--
Release(m, n) ==
    [SetNode(m, n, [Node(m, n) EXCEPT !.used = 0, !.size = 0, !.mem = NULL])
       EXCEPT !.used_nodes = @ - 1]

\* ------------------------------------------------------------ mem_new_alloc
RECURSIVE FirstFitScan(_, _, _)
\* the FIRST_FIT loop from slot i on: the first slot of the node heap that is
\* not allocated and whose size suffices (the slots past the sequence are all
\* zero, so the first of them decides for the rest)
FirstFitScan(m, size, i) ==
    IF ~ULess(i, m.total_nodes) THEN NULL
    ELSE IF Node(m, i).allocated = 0 /\ ~ULess(Node(m, i).size, size) THEN i
    ELSE IF i >= Len(m.node_heap) THEN NULL
    ELSE FirstFitScan(m, size, i + 1)

RECURSIVE BestFitScan(_, _, _)
\* the BEST_FIT loop from entry i on: the first entry of the gap index whose
\* node is not allocated and whose size suffices; the loop dereferences the
\* node of every entry it passes
BestFitScan(m, size, i) ==
    IF ~ULess(i, m.num_gaps) THEN [node |-> NULL, fault |-> "none"]
    ELSE IF Gap(m, i).node = NULL THEN [node |-> NULL, fault |-> "crash"]
    ELSE IF /\ Node(m, Gap(m, i).node).allocated = 0
            /\ ~ULess(Node(m, Gap(m, i).node).size, size)
         THEN [node |-> Gap(m, i).node, fault |-> GapAccess(m, i)]
    ELSE BestFitScan(m, size, i + 1)

\* the candidate gap node of mem_new_alloc under the pool's policy
FindCandidate(m, size) ==
    IF m.policy = FIRST_FIT
    THEN [node |-> FirstFitScan(m, size, 0), fault |-> "none"]
    ELSE BestFitScan(m, size, 0)

RECURSIVE FindUnused(_, _)
\* the loop of mem_new_alloc for a node that is not used, from slot i on
FindUnused(m, i) ==
    IF ~ULess(i, m.total_nodes) THEN NULL
    ELSE IF Node(m, i).used = 0 THEN i
    ELSE FindUnused(m, i + 1)

\* the unused node u is initialised as the gap node of the remaining size
InitGapNode(m, n, u, size, remaining) ==
    [SetNode(m, u, [Node(m, u) EXCEPT !.allocated = 0,
                                      !.used = 1,
                                      !.mem = Node(m, n).mem + size,
                                      !.size = remaining,
                                      !.prev = n])
       EXCEPT !.used_nodes = @ + 1]

\* node u is linked right after node n
LinkAfter(m, n, u) ==
    IF Node(m, n).next = NULL
    THEN SetNext(SetNext(m, n, u), u, NULL)
    ELSE SetNext(SetPrevOfNext(CopyNext(m, u, n), n, u), n, u)

\* the split of mem_new_alloc: slot u becomes the gap node of the remaining
\* size, linked right after node n
SplitNode(m, n, u, size, remaining) ==
    LinkAfter(InitGapNode(m, n, u, size, remaining), n, u)

\* the totals are counted up, node n leaves the gap index and becomes an
\* allocation of the requested size
TakeNode(m, n, size) ==
    SetNode(RemoveFromGapIx([m EXCEPT !.num_allocs = @ + 1, !.alloc_size = @ + size], n),
            n, [Node(m, n) EXCEPT !.allocated = 1, !.size = size])

\* mem_new_alloc once node n is taken, with u the outcome of the loop for an
\* unused node.  When the loop found none, the local unused_node is read
\* uninitialised: the result is the one of a NULL value (return NULL), and
\* uninit tells that any other value ends the process.
SplitWith(m, n, u, size, remaining) ==
    IF u = NULL THEN [m |-> m, ret |-> NULL, uninit |-> TRUE]
    ELSE [m |-> AddToGapIx(SplitNode(m, n, u, size, remaining), remaining, u),
          ret |-> n, uninit |-> FALSE]

\* mem_new_alloc once node n is taken
FinishAlloc(m, n, size, remaining) ==
    IF remaining = 0 THEN [m |-> m, ret |-> n, uninit |-> FALSE]
    ELSE SplitWith(m, n, FindUnused(m, 0), size, remaining)

\* mutant: the totals are counted up before the search result is tested
AllocFrom_CountsFirst(m, size, c) ==
    IF c.node = NULL
    THEN [m |-> [m EXCEPT !.num_allocs = @ + 1, !.alloc_size = @ + size],
          ret |-> NULL, uninit |-> FALSE]
    ELSE FinishAlloc(TakeNode([m EXCEPT !.fault = Worse(@, c.fault)], c.node, size),
                     c.node, size, Node(m, c.node).size - size)

\* mem_new_alloc once the search for a gap node has ended with c
AllocFrom(m, size, c) ==
    IF c.fault = "crash"
    THEN [m |-> [m EXCEPT !.fault = "crash"], ret |-> NULL, uninit |-> FALSE]
    ELSE IF c.node = NULL
    THEN [m |-> [m EXCEPT !.fault = Worse(@, c.fault)], ret |-> NULL, uninit |-> FALSE]
    ELSE FinishAlloc(TakeNode([m EXCEPT !.fault = Worse(@, c.fault)], c.node, size),
                     c.node, size, Node(m, c.node).size - size)

\* mem_new_alloc(pool, size): the manager it leaves and the value it returns
NewAllocResult(m, size) ==
    IF m.num_gaps = 0 THEN [m |-> m, ret |-> NULL, uninit |-> FALSE]
    ELSE IF ~ULess(m.used_nodes, m.total_nodes)
         THEN [m |-> m, ret |-> NULL, uninit |-> FALSE]
    ELSE AllocFrom(m, size, FindCandidate(m, size))

\* ------------------------------------------------------------ mem_del_alloc
RECURSIVE FindNodeToDelete(_, _, _)
\* the lookup of mem_del_alloc from slot i on: the first slot whose mem equals
\* the mem of the handle
FindNodeToDelete(m, alloc, i) ==
    IF ~ULess(i, m.total_nodes) THEN NULL
    ELSE IF Node(m, i).mem = Node(m, alloc).mem THEN i
    ELSE FindNodeToDelete(m, alloc, i + 1)

\* node_to_delete->allocated = 0, and the totals are counted down
Unallocate(m, d) ==
    [SetNode(m, d, [Node(m, d) EXCEPT !.allocated = 0])
       EXCEPT !.num_allocs = @ - 1,
              !.alloc_size = @ - Node(m, d).size]

\* mutant: no neighbour is taken for a gap
NeighbourIsGap_Never(m, n) == FALSE

\* the test "next/prev is a gap" of mem_del_alloc, whose last conjunct
\* assigns 1 to the used field of the neighbour n it has found free
NeighbourIsGap(m, n) == n # NULL /\ Node(m, n).allocated = 0
MarkUsed(m, n) == SetNode(m, n, [Node(m, n) EXCEPT !.used = 1])

\* node_to_delete->alloc_record.size += node_to_delete->next->alloc_record.size
AbsorbNext(m, d) ==
    SetNode(m, d, [Node(m, d) EXCEPT !.size = @ + Node(m, Node(m, d).next).size])

\* the list update of the forward merge: nx leaves the list
UnlinkNext(m, d, nx) ==
    IF Node(m, nx).next # NULL
    THEN CopyNext(SetPrevOfNext(m, nx, d), d, nx)
    ELSE SetNext(m, d, NULL)

\* the forward merge of mem_del_alloc: node d absorbs its next node nx
MergeNext(m, d, nx) ==
    ClearLinks(
      UnlinkNext(
        Release(AbsorbNext(RemoveFromGapIx(m, nx), d), Node(m, d).next),
        d, nx),
      nx)

ForwardMerge(m, d) ==
    IF NeighbourIsGap(m, Node(m, d).next)
    THEN MergeNext(MarkUsed(m, Node(m, d).next), d, Node(m, d).next)
    ELSE m

\* _mem_add_to_gap_ix(pool_mgr, n->alloc_record.size, n)
AddNode(m, n) == AddToGapIx(m, Node(m, n).size, n)

\* pre_node->alloc_record.size =
\*     node_to_delete->alloc_record.size + node_to_delete->prev->alloc_record.size
AbsorbIntoPrev(m, d, pv) ==
    SetNode(m, pv, [Node(m, pv) EXCEPT
                      !.size = Node(m, d).size + Node(m, Node(m, d).prev).size])

\* the list update of the backward merge: d leaves the list
UnlinkNode(m, d, pv) ==
    IF Node(m, d).next # NULL
    THEN SetPrevOfNext(CopyNext(m, pv, d), d, pv)
    ELSE SetNext(m, pv, NULL)

\* the backward merge of mem_del_alloc: the previous node pv absorbs node d
MergePrev(m, d, pv) ==
    AddNode(
      ClearLinks(
        UnlinkNode(
          Release(
            AbsorbIntoPrev(RemoveFromGapIx(RemoveFromGapIx(m, pv), d), d, pv),
            d),
          d, pv),
        d),
      pv)

BackwardMerge(m, d) ==
    IF NeighbourIsGap(m, Node(m, d).prev)
    THEN MergePrev(MarkUsed(m, Node(m, d).prev), d, Node(m, d).prev)
    ELSE m

\* mem_del_alloc once its lookup has ended with d.  When the lookup found no
\* node, the local node_to_delete is read uninitialised: the result is the one
\* of a NULL value (return ALLOC_NOT_FREED), and uninit tells that any other
\* value ends the process.
DeleteNode(m, d) ==
    IF d = NULL THEN [m |-> m, ret |-> ALLOC_NOT_FREED, uninit |-> TRUE]
    ELSE [m |-> BackwardMerge(AddNode(ForwardMerge(Unallocate(m, d), d), d), d),
          ret |-> ALLOC_OK, uninit |-> FALSE]

\* mem_del_alloc(pool, alloc): the manager it leaves and the value it returns
DelAllocResult(m, alloc) == DeleteNode(m, FindNodeToDelete(m, alloc, 0))

\* --------------------------------------------------------- mem_inspect_pool
RECURSIVE InspectWalk(_, _, _)
\* the nodes mem_inspect_pool visits: k steps from node cur, staying on the
\* last node once next is NULL
InspectWalk(m, cur, k) ==
    IF k <= 0 THEN <<>>
    ELSE <<cur>> \o InspectWalk(m, IF Node(m, cur).next # NULL
                                   THEN Node(m, cur).next ELSE cur, k - 1)

\* the segments array mem_inspect_pool returns (empty when used_nodes is not
\* a count calloc can serve)
InspectResult(m) ==
    LET w == InspectWalk(m, 0, IF m.used_nodes < 0 THEN 0 ELSE m.used_nodes)
    IN  [i \in 1 .. Len(w) |->
           [size |-> Node(m, w[i]).size, allocated |-> Node(m, w[i]).allocated]]

\* ------------------------------------------------- mem_pool_open and close
\* the pool manager mem_pool_open builds
OpenResult(size, policy) ==
    [mem |-> 0,
     total_size |-> size,
     alloc_size |-> 0,
     num_gaps |-> 1,
     policy |-> policy,
     num_allocs |-> 0,
     node_heap |-> Put(<<>>, 0, [mem |-> 0, size |-> size, used |-> 1, allocated |-> 0,
                                 next |-> NULL, prev |-> NULL], ZeroNode),
     gap_ix |-> Put(<<>>, 0, [size |-> size, node |-> 0], ZeroGap),
     total_nodes |-> MEM_NODE_HEAP_INIT_CAPACITY,
     used_nodes |-> 1,
     gap_ix_capacity |-> MEM_GAP_IX_INIT_CAPACITY,
     gap_ix_extent |-> MEM_GAP_IX_INIT_CAPACITY,
     fault |-> "none"]

\* a pool manager that was freed, or never allocated
NoMgr == [mem |-> NULL]

\* mutant: the test without its num_allocs operand
CloseRefused_GapsOnly(m) ==
    m.mem = NULL \/ ULess(1, m.num_gaps)

\* the test of mem_pool_close that refuses to close the pool
CloseRefused(m) ==
    m.mem = NULL \/ ULess(1, m.num_gaps) \/ ULess(0, m.num_allocs)

\* ------------------------------------------------------------------- state
VARIABLES
    pool_store,           \* NoStore (a NULL pool_store), or the array of manager pointers
    pool_store_size,
    pool_store_capacity,
    pool_store_extent,    \* the slots the storage of pool_store really holds
    mgrs,                 \* the pool managers, by pointer
    live,                 \* per pool, the bag of handles the client holds
    phase,                \* per pool, what the client has done: "grow"
                          \* (allocations only), "drain" (then frees only),
                          \* "mixed", "misused" (it has freed a handle it
                          \* did not hold)
    last,                 \* the last call and what it returned
    fault                 \* "none", or "crash" once the process has died

vars == <<pool_store, pool_store_size, pool_store_capacity, pool_store_extent,
          mgrs, live, phase, last, fault>>

registry == <<pool_store, pool_store_size, pool_store_capacity, pool_store_extent>>

StoreSlots == 0 .. (MEM_POOL_STORE_INIT_CAPACITY - 1)

\* pool_store == NULL
NoStore == <<>>

IsOpen(p) == mgrs[p] # NoMgr

Init ==
    /\ pool_store = NoStore
    /\ pool_store_size = 0
    /\ pool_store_capacity = 0
    /\ pool_store_extent = 0
    /\ mgrs = [p \in MgrIds |-> NoMgr]
    /\ live = [p \in MgrIds |-> EmptyBag]
    /\ phase = [p \in MgrIds |-> "grow"]
    /\ last = [op |-> "start", pool |-> NULL, arg |-> NULL, ret |-> NULL]
    /\ fault = "none"

\* the process dies inside a call
Crash ==
    /\ fault' = "crash"
    /\ UNCHANGED <<registry, mgrs, live, phase, last>>

\* a call on pool p ends with result r (the manager and the return value),
\* or, when the call ran into undefined behaviour, with the death of the
\* process
Commit(p, op, arg, r) ==
    \/ /\ r.m.fault # "crash"
       /\ mgrs' = [mgrs EXCEPT ![p] = r.m]
       /\ last' = [op |-> op, pool |-> p, arg |-> arg, ret |-> r.ret]
       /\ UNCHANGED fault
    \/ /\ r.m.fault # "none" \/ r.uninit
       /\ fault' = "crash"
       /\ UNCHANGED <<mgrs, last>>

\* mem_init() without the test of pool_store
mem_init_Unguarded ==
    /\ fault = "none"
    /\ pool_store' = [i \in StoreSlots |-> NULL]
    /\ pool_store_capacity' = MEM_POOL_STORE_INIT_CAPACITY
    /\ pool_store_extent' = MEM_POOL_STORE_INIT_CAPACITY
    /\ pool_store_size' = 0
    /\ last' = [op |-> "mem_init", pool |-> NULL, arg |-> NULL, ret |-> ALLOC_OK]
    /\ UNCHANGED <<mgrs, live, phase, fault>>

\* mem_init()
mem_init ==
    /\ fault = "none"
    /\ IF pool_store = NoStore
       THEN /\ pool_store' = [i \in StoreSlots |-> NULL]
            /\ pool_store_capacity' = MEM_POOL_STORE_INIT_CAPACITY
            /\ pool_store_extent' = MEM_POOL_STORE_INIT_CAPACITY
            /\ pool_store_size' = 0
            /\ last' = [op |-> "mem_init", pool |-> NULL, arg |-> NULL, ret |-> ALLOC_OK]
       ELSE /\ UNCHANGED registry
            /\ last' = [op |-> "mem_init", pool |-> NULL, arg |-> NULL,
                         ret |-> ALLOC_CALLED_AGAIN]
    /\ UNCHANGED <<mgrs, live, phase, fault>>

\* mem_free(): the loop writes NULL to pool_store[0 .. pool_store_capacity - 1],
\* beyond the array when the capacity exceeds what the array holds
mem_free ==
    /\ fault = "none"
    /\ IF pool_store = NoStore
       THEN /\ last' = [op |-> "mem_free", pool |-> NULL, arg |-> NULL,
                         ret |-> ALLOC_CALLED_AGAIN]
            /\ UNCHANGED <<registry, mgrs, live, phase, fault>>
       ELSE \/ /\ pool_store' = NoStore
               /\ pool_store_capacity' = 0
               /\ pool_store_size' = 0
               /\ pool_store_extent' = 0
               /\ last' = [op |-> "mem_free", pool |-> NULL, arg |-> NULL,
                            ret |-> ALLOC_OK]
               /\ UNCHANGED <<mgrs, live, phase, fault>>
            \/ /\ pool_store_capacity > pool_store_extent
               /\ Crash

\* _mem_resize_pool_store: realloc to MEM_EXPAND_FACTOR * sizeof(pool_store)
\* bytes and double the capacity
ResizePoolStore(reg) ==
    IF FillExceeded(reg.size, reg.capacity)
    THEN [reg EXCEPT !.extent = (MEM_EXPAND_FACTOR * SizeofPtr) \div SizeofPtr,
                     !.capacity = @ * MEM_EXPAND_FACTOR]
    ELSE reg

\* the fault of an access to pool_store[i]
StoreAccess(reg, i) ==
    IF i < 0 \/ i >= MEM_POOL_STORE_INIT_CAPACITY THEN "crash"
    ELSE IF i >= reg.extent THEN "oob" ELSE "none"

\* mem_pool_open(size, policy), the new manager being allocated at p
mem_pool_open(p, size, policy) ==
    /\ fault = "none"
    /\ pool_store # NoStore
    /\ ~IsOpen(p)
    /\ LET reg == ResizePoolStore([store |-> pool_store, size |-> pool_store_size,
                                   capacity |-> pool_store_capacity,
                                   extent |-> pool_store_extent])
           f == StoreAccess(reg, reg.size)
       IN  \/ /\ f # "crash"
              /\ pool_store' = [reg.store EXCEPT ![reg.size] = p]
              /\ pool_store_size' = reg.size + 1
              /\ pool_store_capacity' = reg.capacity
              /\ pool_store_extent' = reg.extent
              /\ mgrs' = [mgrs EXCEPT ![p] = OpenResult(size, policy)]
              /\ live' = [live EXCEPT ![p] = EmptyBag]
              /\ phase' = [phase EXCEPT ![p] = "grow"]
              /\ last' = [op |-> "mem_pool_open", pool |-> p, arg |-> size, ret |-> p]
              /\ UNCHANGED fault
           \/ /\ f # "none"
              /\ Crash

\* mem_pool_close(pool)
mem_pool_close(p) ==
    /\ fault = "none"
    /\ IsOpen(p)
    /\ IF CloseRefused(mgrs[p])
       THEN /\ last' = [op |-> "mem_pool_close", pool |-> p, arg |-> NULL,
                         ret |-> ALLOC_NOT_FREED]
            /\ UNCHANGED <<registry, mgrs, live, phase, fault>>
       ELSE LET lim == IF pool_store_capacity > MEM_POOL_STORE_INIT_CAPACITY
                       THEN MEM_POOL_STORE_INIT_CAPACITY ELSE pool_store_capacity
                found == {i \in 0 .. (lim - 1) : pool_store[i] = p}
                reach == IF found = {} THEN pool_store_capacity - 1 ELSE Min(found)
            IN  \/ /\ pool_store' = IF found = {} THEN pool_store
                                    ELSE [pool_store EXCEPT ![Min(found)] = NULL]
                   /\ mgrs' = [mgrs EXCEPT ![p] = NoMgr]
                   /\ live' = [live EXCEPT ![p] = EmptyBag]
                   /\ last' = [op |-> "mem_pool_close", pool |-> p, arg |-> NULL,
                                ret |-> ALLOC_OK]
                   /\ UNCHANGED <<pool_store_size, pool_store_capacity,
                                  pool_store_extent, phase, fault>>
                \/ /\ reach >= pool_store_extent
                   /\ Crash

\* mem_new_alloc(pool, size)
mem_new_alloc(p, size) ==
    /\ fault = "none"
    /\ IsOpen(p)
    /\ \E r \in {NewAllocResult(mgrs[p], size)} :
             /\ Commit(p, "mem_new_alloc", size, r)
             /\ IF fault' = "crash" \/ r.ret = NULL
                THEN UNCHANGED <<live, phase>>
                ELSE /\ live' = [live EXCEPT ![p] = @ (+) SetToBag({r.ret})]
                     /\ phase' = [phase EXCEPT ![p] =
                                     IF @ \in {"grow", "misused"} THEN @ ELSE "mixed"]
    /\ UNCHANGED registry

\* mem_del_alloc(pool, alloc)
mem_del_alloc(p, alloc) ==
    /\ fault = "none"
    /\ IsOpen(p)
    /\ \E r \in {DelAllocResult(mgrs[p], alloc)} :
             /\ Commit(p, "mem_del_alloc", alloc, r)
             /\ IF fault' = "crash"
                THEN UNCHANGED <<live, phase>>
                ELSE /\ live' = [live EXCEPT ![p] = @ (-) SetToBag({alloc})]
                     /\ phase' = [phase EXCEPT ![p] =
                                     IF ~BagIn(alloc, live[p]) THEN "misused"
                                     ELSE IF @ \in {"mixed", "misused"} THEN @
                                     ELSE "drain"]
    /\ UNCHANGED registry

\* mem_inspect_pool(pool, &segments, &num_segments)
mem_inspect_pool(p) ==
    /\ fault = "none"
    /\ IsOpen(p)
    /\ last' = [op |-> "mem_inspect_pool", pool |-> p, arg |-> NULL,
                ret |-> InspectResult(mgrs[p])]
    /\ UNCHANGED <<registry, mgrs, live, phase, fault>>

\* ----------------------------------------------------------- specification
NoPoolOpen == \A p \in MgrIds : ~IsOpen(p)
FirstFree == Min({p \in MgrIds : ~IsOpen(p)})

\* the client stops allocating and freeing in a pool whose gap index capacity
\* has gone down by MaxShrink
InBudget(p) == mgrs[p].gap_ix_capacity > MEM_GAP_IX_INIT_CAPACITY - MaxShrink

\* the client opens a pool (the first of the registry, when none is open)
OpenFirst ==
    \E policy \in Policies :
      /\ NoPoolOpen
      /\ pool_store_size = 0
      /\ mem_pool_open(FirstFree, PoolSize, policy)

Close == \E p \in MgrIds : mem_pool_close(p)

Allocate ==
    \E p \in MgrIds, size \in ReqSizes :
      /\ IsOpen(p) /\ InBudget(p)
      /\ mem_new_alloc(p, size)

\* the client frees a handle it holds
Free ==
    \E p \in MgrIds :
      /\ IsOpen(p) /\ InBudget(p)
      /\ \E alloc \in BagToSet(live[p]) : mem_del_alloc(p, alloc)

\* the client frees again the handle it has just freed and no longer holds
\* (once per pool)
DoubleFree ==
    \E p \in MgrIds :
      /\ IsOpen(p) /\ InBudget(p)
      /\ phase[p] # "misused"
      /\ last.op = "mem_del_alloc" /\ last.pool = p
      /\ ~BagIn(last.arg, live[p])
      /\ mem_del_alloc(p, last.arg)

Inspect == \E p \in MgrIds : mem_inspect_pool(p)

\* one pool, a client that frees only handles it holds
Next == mem_init \/ OpenFirst \/ Close \/ Allocate \/ Free \/ Inspect

Spec == Init /\ [][Next]_vars

\* the same, and double frees
NextMisuse == Next \/ DoubleFree

SpecMisuse == Init /\ [][NextMisuse]_vars

\* a client that has only made requests of size 0 in its pool goes on with
\* them past the budget (each takes a node of the heap and no byte of the pool)
Fill ==
    \E p \in MgrIds :
      /\ IsOpen(p) /\ ~InBudget(p)
      /\ phase[p] = "grow" /\ mgrs[p].alloc_size = 0
      /\ mem_new_alloc(p, 0)

NextFill == Next \/ Fill

SpecFill == Init /\ [][NextFill]_vars

\* a client makes one more request in a pool that has used up its budget
Late ==
    \E p \in MgrIds, size \in ReqSizes :
      /\ IsOpen(p)
      /\ mgrs[p].gap_ix_capacity = MEM_GAP_IX_INIT_CAPACITY - MaxShrink
      /\ mem_new_alloc(p, size)

NextLate == Next \/ Late

SpecLate == Init /\ [][NextLate]_vars

\* a client that repeats, in the one pool it opens: request a block smaller
\* than the pool, then free it
CycleAlloc ==
    \E p \in MgrIds, size \in ReqSizes \ {PoolSize} :
      /\ IsOpen(p)
      /\ live[p] = EmptyBag
      /\ mem_new_alloc(p, size)

CycleFree ==
    \E p \in MgrIds :
      /\ IsOpen(p)
      /\ \E alloc \in BagToSet(live[p]) : mem_del_alloc(p, alloc)

NextCycle == mem_init \/ OpenFirst \/ CycleAlloc \/ CycleFree

SpecCycle == Init /\ [][NextCycle]_vars

\* a client that opens and closes pools, up to MaxOpens times between two
\* calls of mem_free, and never allocates
OpenAny ==
    \E p \in MgrIds, policy \in Policies :
      /\ pool_store_size < MaxOpens
      /\ mem_pool_open(p, PoolSize, policy)

NextRegistry == mem_init \/ mem_free \/ OpenAny \/ Close

SpecRegistry == Init /\ [][NextRegistry]_vars

\* ------------------------------------------------------ views of a manager
RECURSIVE SumSize(_, _)
SumSize(m, S) ==
    IF S = {} THEN 0
    ELSE LET i == CHOOSE x \in S : TRUE
         IN  Node(m, i).size + SumSize(m, S \ {i})

\* the active nodes, and those of them that are gaps and allocations
ActiveNodes(m) == {i \in 0 .. (Len(m.node_heap) - 1) : Node(m, i).used = 1}
FreeNodes(m) == {i \in ActiveNodes(m) : Node(m, i).allocated = 0}
AllocNodes(m) == {i \in ActiveNodes(m) : Node(m, i).allocated = 1}
OpenPools == {p \in MgrIds : IsOpen(p)}

\* the nodes mem_inspect_pool visits
Walk(m) == InspectWalk(m, 0, IF m.used_nodes < 0 THEN 0 ELSE m.used_nodes)

\* ------------------------------------------------------------------ claims
\* C1: after every mem_new_alloc and mem_del_alloc of a client that frees
\* only handles it holds, the sizes of the active free nodes plus alloc_size
\* make total_size, alloc_size is the sum of the sizes of the active
\* allocated nodes, and num_allocs is the number of active allocated nodes.
C1_Accounting ==
    \A p \in OpenPools :
      LET m == mgrs[p]
      IN  /\ SumSize(m, FreeNodes(m)) + m.alloc_size = m.total_size
          /\ m.alloc_size = SumSize(m, AllocNodes(m))
          /\ m.num_allocs = Cardinality(AllocNodes(m))

\* C2: no active free node has an active free node as its next or its prev.
C2_NoAdjacentGaps ==
    \A p \in OpenPools :
      LET m == mgrs[p]
      IN  \A i \in FreeNodes(m) :
            /\ Node(m, i).next \notin FreeNodes(m)
            /\ Node(m, i).prev \notin FreeNodes(m)

\* a mem_del_alloc has merged two nodes (the slot of one of them is zero
\* again, below a slot in use) and left a gap beside an allocation
C2_Witness ==
    /\ last.op = "mem_del_alloc"
    /\ IsOpen(last.pool)
    /\ LET m == mgrs[last.pool]
       IN  /\ \E i \in 0 .. (Len(m.node_heap) - 1) : Node(m, i) = ZeroNode
           /\ FreeNodes(m) # {}
           /\ AllocNodes(m) # {}

\* C3: mem_inspect_pool returns one segment per active node, in strictly
\* ascending order of offset, the first at offset 0, each node starting where
\* the one before it ends, and the sizes adding up to total_size.
C3_InspectPartition ==
    (last.op = "mem_inspect_pool" /\ IsOpen(last.pool)) =>
      LET m == mgrs[last.pool]
          w == Walk(m)
      IN  /\ Len(last.ret) = Cardinality(ActiveNodes(m))
          /\ {w[i] : i \in 1 .. Len(w)} = ActiveNodes(m)
          /\ Node(m, w[1]).mem = 0
          /\ \A i \in 1 .. (Len(w) - 1) :
               /\ Node(m, w[i]).mem < Node(m, w[i + 1]).mem
               /\ Node(m, w[i + 1]).mem = Node(m, w[i]).mem + Node(m, w[i]).size
          /\ SumSize(m, {w[i] : i \in 1 .. Len(w)}) = m.total_size
          /\ \A i \in 1 .. Len(w) :
               last.ret[i] = [size |-> Node(m, w[i]).size,
                              allocated |-> Node(m, w[i]).allocated]

\* C4: the first num_gaps entries of the gap index are in bijection with the
\* active free nodes, each entry holding its node's size, and num_gaps is the
\* number of active free nodes.
C4_GapIndexBijection ==
    \A p \in OpenPools :
      LET m == mgrs[p]
      IN  /\ m.num_gaps = Cardinality(FreeNodes(m))
          /\ \A i \in 0 .. (m.num_gaps - 1) :
               /\ Gap(m, i).node \in FreeNodes(m)
               /\ Gap(m, i).size = Node(m, Gap(m, i).node).size
               /\ \A j \in 0 .. (m.num_gaps - 1) :
                    Gap(m, j).node = Gap(m, i).node => j = i
          /\ \A n \in FreeNodes(m) : \E i \in 0 .. (m.num_gaps - 1) : Gap(m, i).node = n

\* ------------------------------------------------------- steps of the calls
\* the step is a mem_pool_close(p), a mem_new_alloc(p, last'.arg), a
\* mem_del_alloc(p, last'.arg) that has returned last'.ret
CloseStep(p) ==
    last'.op = "mem_pool_close" /\ last'.pool = p /\ fault' = "none"
AllocStep(p) ==
    last'.op = "mem_new_alloc" /\ last'.pool = p /\ fault' = "none"
FreeStep(p) ==
    last'.op = "mem_del_alloc" /\ last'.pool = p /\ fault' = "none"

\* the fields of two managers are the same
SameManager(m1, m2) == [m1 EXCEPT !.fault = "none"] = [m2 EXCEPT !.fault = "none"]

\* the slots of the registry that hold manager p
SlotsOf(store, p) == {i \in DOMAIN store : store[i] = p}

\* the free nodes of m that can serve a request of size
Fitting(m, size) == {i \in FreeNodes(m) : Node(m, i).size >= size}

\* C5: mem_pool_close returns ALLOC_OK exactly when num_allocs is 0 and
\* num_gaps is 1 at the call; otherwise it returns ALLOC_NOT_FREED and leaves
\* the manager and the registry as they were; on ALLOC_OK the registry slot of
\* the manager is cleared.
C5_CloseIff ==
    [][\A p \in MgrIds :
         CloseStep(p) =>
           /\ (last'.ret = ALLOC_OK) <=>
                (mgrs[p].num_allocs = 0 /\ mgrs[p].num_gaps = 1)
           /\ last'.ret # ALLOC_OK =>
                /\ last'.ret = ALLOC_NOT_FREED
                /\ mgrs' = mgrs
                /\ UNCHANGED registry
           /\ last'.ret = ALLOC_OK =>
                /\ SlotsOf(pool_store, p) # {}
                /\ SlotsOf(pool_store', p) = {}
                /\ ~IsOpen(p)']_vars

\* a pool that was allocated from and freed has been closed
C5_Witness ==
    /\ last.op = "mem_pool_close"
    /\ last.ret = ALLOC_OK
    /\ phase[last.pool] = "drain"
    /\ SlotsOf(pool_store, last.pool) = {}

\* a pool in the state mem_pool_open leaves it in: one active node, a gap of
\* the whole size at offset 0, no allocation
Pristine(m) ==
    /\ ActiveNodes(m) = FreeNodes(m)
    /\ Cardinality(ActiveNodes(m)) = 1
    /\ \A i \in ActiveNodes(m) : Node(m, i).size = m.total_size /\ Node(m, i).mem = 0
    /\ m.num_allocs = 0
    /\ m.alloc_size = 0
    /\ m.num_gaps = 1

\* C6: once a client that has only allocated and then only freed holds no
\* handle any more, the pool is as mem_pool_open left it: one active node, a
\* gap of size total_size at offset 0, num_allocs 0, alloc_size 0, num_gaps 1.
C6_RoundTrip ==
    \A p \in OpenPools :
      (phase[p] = "drain" /\ live[p] = EmptyBag) => Pristine(mgrs[p])

\* C7: under FIRST_FIT a mem_new_alloc that returns a node returns an active
\* free node whose size suffices and whose address is the lowest among the
\* active free nodes whose size suffices.
C7_FirstFitLowest ==
    [][\A p \in MgrIds :
         (AllocStep(p) /\ last'.ret # NULL /\ mgrs[p].policy = FIRST_FIT) =>
           /\ last'.ret \in Fitting(mgrs[p], last'.arg)
           /\ \A j \in Fitting(mgrs[p], last'.arg) :
                Node(mgrs[p], last'.ret).mem <= Node(mgrs[p], j).mem]_vars

\* C8: under BEST_FIT a mem_new_alloc that returns a node returns an active
\* free node whose size suffices, of the least size among the active free
\* nodes whose size suffices, and of the lowest address among those of that
\* size.
C8_BestFitTightest ==
    [][\A p \in MgrIds :
         (AllocStep(p) /\ last'.ret # NULL /\ mgrs[p].policy = BEST_FIT) =>
           /\ last'.ret \in Fitting(mgrs[p], last'.arg)
           /\ \A j \in Fitting(mgrs[p], last'.arg) :
                /\ Node(mgrs[p], last'.ret).size <= Node(mgrs[p], j).size
                /\ Node(mgrs[p], j).size = Node(mgrs[p], last'.ret).size =>
                     Node(mgrs[p], last'.ret).mem <= Node(mgrs[p], j).mem]_vars

\* C9: a mem_new_alloc that returns NULL leaves num_allocs, alloc_size,
\* num_gaps, every node and the gap index as they were.
C9_FailedAllocUnchanged ==
    [][\A p \in MgrIds :
         (AllocStep(p) /\ last'.ret = NULL) => SameManager(mgrs'[p], mgrs[p])]_vars

\* the node heap is full and mem_new_alloc has returned NULL
C9_Witness ==
    /\ last.op = "mem_new_alloc"
    /\ last.ret = NULL
    /\ IsOpen(last.pool)
    /\ mgrs[last.pool].used_nodes = mgrs[last.pool].total_nodes
    /\ mgrs[last.pool].num_gaps > 0

\* C10: a mem_del_alloc of a handle the client does not hold returns
\* ALLOC_NOT_FREED and leaves the manager as it was.
C10_StaleHandleRefused ==
    [][\A p \in MgrIds :
         (FreeStep(p) /\ ~BagIn(last'.arg, live[p])) =>
           /\ last'.ret = ALLOC_NOT_FREED
           /\ SameManager(mgrs'[p], mgrs[p])]_vars

\* the bytes of the block of node i
Extent(m, i) == {b \in 0 .. (m.total_size - 1) :
                   Node(m, i).mem <= b /\ b < Node(m, i).mem + Node(m, i).size}

\* C11: while the client holds a handle, its node stays active and allocated
\* with the same offset and size, and the blocks of two held handles share no
\* byte.
C11_HandleStable ==
    [][\A p \in MgrIds :
         (fault' = "none" /\ IsOpen(p)') =>
           \A h \in BagToSet(live'[p]) :
             /\ Node(mgrs'[p], h).used = 1
             /\ Node(mgrs'[p], h).allocated = 1
             /\ (IsOpen(p) /\ BagIn(h, live[p]) /\ ~(AllocStep(p) /\ last'.ret = h)) =>
                  /\ Node(mgrs'[p], h).mem = Node(mgrs[p], h).mem
                  /\ Node(mgrs'[p], h).size = Node(mgrs[p], h).size
             /\ \A g \in BagToSet(live'[p]) \ {h} :
                  Extent(mgrs'[p], h) \cap Extent(mgrs'[p], g) = {}]_vars

InitStep == last'.op = "mem_init" /\ fault' = "none"
ReleaseStep == last'.op = "mem_free" /\ fault' = "none"

\* C12: mem_init succeeds exactly when the registry is not initialised and
\* leaves it with capacity 20, size 0 and every slot NULL, also after a
\* mem_free; mem_free succeeds exactly when the registry is initialised; a
\* failing call changes nothing; and only a successful mem_init or mem_free
\* changes whether the registry is initialised, so that the two alternate,
\* mem_init first.
C12_InitFreeAlternate ==
    [][/\ InitStep =>
           IF pool_store = NoStore
           THEN /\ last'.ret = ALLOC_OK
                /\ pool_store' = [i \in StoreSlots |-> NULL]
                /\ pool_store_capacity' = MEM_POOL_STORE_INIT_CAPACITY
                /\ pool_store_size' = 0
           ELSE /\ last'.ret = ALLOC_CALLED_AGAIN
                /\ UNCHANGED <<registry, mgrs>>
       /\ ReleaseStep =>
           IF pool_store # NoStore
           THEN /\ last'.ret = ALLOC_OK
                /\ pool_store' = NoStore
           ELSE /\ last'.ret = ALLOC_CALLED_AGAIN
                /\ UNCHANGED <<registry, mgrs>>
       /\ ((pool_store = NoStore) # (pool_store' = NoStore)) =>
           /\ InitStep \/ ReleaseStep
           /\ last'.ret = ALLOC_OK]_vars

\* mem_init has succeeded while a manager opened before the last mem_free is
\* still open: the registry has been initialised a second time
C12_Witness ==
    /\ last.op = "mem_init"
    /\ last.ret = ALLOC_OK
    /\ \E p \in MgrIds : IsOpen(p)

\* C13: a mem_free called while a pool manager is open does not return
\* ALLOC_OK and leave an open manager that the registry no longer records.
C13_FreeKeepsOpenManagers ==
    [][(ReleaseStep /\ \E p \in MgrIds : IsOpen(p)) =>
         ~(last'.ret = ALLOC_OK /\
           \E p \in MgrIds : IsOpen(p)' /\ SlotsOf(pool_store', p) = {})]_vars

\* the positions of node n among the first num_gaps entries of the gap index
GapEntries(m, n) == {i \in 0 .. (m.num_gaps - 1) : Gap(m, i).node = n}

Chain(m) ==
    LET w == InspectWalk(m, 0, MEM_NODE_HEAP_INIT_CAPACITY)
    IN  {w[i] : i \in 1 .. Len(w)}

\* node n of m is a free block (NULL is none)
IsFreeBlock(m, n) == n # NULL /\ n \in FreeNodes(m)

\* node x of m is released: inactive, size 0, no offset, no links, and not on
\* the chain
MergedAway(m, x) ==
    /\ Node(m, x).used = 0
    /\ Node(m, x).size = 0
    /\ Node(m, x).mem = NULL
    /\ Node(m, x).next = NULL
    /\ Node(m, x).prev = NULL
    /\ x \notin Chain(m)

\* C15: mem_del_alloc of a live block b with k free neighbours leaves one
\* active free block over b and these neighbours: b's predecessor when it was
\* free, else b.  The other merged nodes are inactive with size 0, no offset
\* and no links, and off the chain; used_nodes goes down by k, num_gaps
\* changes by 1 - k, and the gap index has exactly one entry for the block
\* that remains.
C15_FreeMerges ==
    [][\A p \in MgrIds :
         (FreeStep(p) /\ BagIn(last'.arg, live[p])
            /\ last'.arg \in AllocNodes(mgrs[p])) =>
           LET m == mgrs[p]
               t == mgrs'[p]
               b == last'.arg
               pv == Node(m, b).prev
               nx == Node(m, b).next
               k == (IF IsFreeBlock(m, pv) THEN 1 ELSE 0)
                      + (IF IsFreeBlock(m, nx) THEN 1 ELSE 0)
               s == IF IsFreeBlock(m, pv) THEN pv ELSE b
           IN  /\ last'.ret = ALLOC_OK
               /\ Node(t, s).used = 1
               /\ Node(t, s).allocated = 0
               /\ Node(t, s).mem = Node(m, s).mem
               /\ Node(t, s).size = Node(m, b).size
                     + (IF IsFreeBlock(m, pv) THEN Node(m, pv).size ELSE 0)
                     + (IF IsFreeBlock(m, nx) THEN Node(m, nx).size ELSE 0)
               /\ IsFreeBlock(m, pv) => MergedAway(t, b)
               /\ IsFreeBlock(m, nx) => MergedAway(t, nx)
               /\ t.used_nodes = m.used_nodes - k
               /\ t.num_gaps = m.num_gaps + 1 - k
               /\ Cardinality(GapEntries(t, s)) = 1]_vars

\* gap index entries i and j of m are in order: by size, and by address when
\* the sizes are the same
GapOrdered(m, i, j) ==
    \/ Gap(m, i).size < Gap(m, j).size
    \/ /\ Gap(m, i).size = Gap(m, j).size
       /\ Node(m, Gap(m, i).node).mem <= Node(m, Gap(m, j).node).mem

\* C16: the first num_gaps entries of the gap index of an open pool are in
\* ascending order of size, entries of one size in ascending order of address.
C16_GapIndexSorted ==
    \A p \in OpenPools :
      \A i \in 0 .. (mgrs[p].num_gaps - 2) : GapOrdered(mgrs[p], i, i + 1)

\* C17: the gap index capacity of an open pool never goes down, a change of
\* it is a doubling, it is at least num_gaps, and the array of the gap index
\* holds at least that many entries.
C17_GapCapacity ==
    [][\A p \in MgrIds :
         (IsOpen(p) /\ IsOpen(p)' /\ fault' = "none") =>
           /\ mgrs'[p].gap_ix_capacity >= mgrs[p].gap_ix_capacity
           /\ mgrs'[p].gap_ix_capacity \in
                {mgrs[p].gap_ix_capacity,
                 mgrs[p].gap_ix_capacity * MEM_GAP_IX_EXPAND_FACTOR}
           /\ mgrs'[p].gap_ix_capacity >= mgrs'[p].num_gaps
           /\ mgrs'[p].gap_ix_extent >= mgrs'[p].gap_ix_capacity]_vars

OpenStep(p) == last'.op = "mem_pool_open" /\ last'.pool = p /\ fault' = "none"

\* C18: mem_pool_open records the new manager in exactly one slot of the
\* registry, below pool_store_capacity and inside the array, keeps the slots
\* written before, leaves the capacity or doubles it, and leaves an array of at
\* least pool_store_capacity slots; mem_pool_close changes no slot but the one
\* of the manager it closes.
C18_RegistrySlots ==
    [][\A p \in MgrIds :
         /\ OpenStep(p) =>
              /\ Cardinality(SlotsOf(pool_store', p)) = 1
              /\ \A i \in SlotsOf(pool_store', p) :
                   i < pool_store_capacity' /\ i < pool_store_extent'
              /\ \A i \in StoreSlots : pool_store'[i] # p => pool_store'[i] = pool_store[i]
              /\ pool_store_capacity' \in
                   {pool_store_capacity, pool_store_capacity * MEM_EXPAND_FACTOR}
              /\ pool_store_extent' >= pool_store_capacity'
         /\ (CloseStep(p) /\ pool_store # NoStore) =>
              \A i \in StoreSlots : pool_store[i] # p => pool_store'[i] = pool_store[i]]_vars

\* C19: a mem_new_alloc called when used_nodes equals total_nodes and a free
\* block can serve the request doubles total_nodes, keeps the nodes in use
\* and returns an allocation, not NULL.
C19_NodeHeapGrows ==
    [][\A p \in MgrIds :
         (AllocStep(p) /\ mgrs[p].used_nodes = mgrs[p].total_nodes
            /\ Fitting(mgrs[p], last'.arg) # {}) =>
           /\ last'.ret # NULL
           /\ mgrs'[p].total_nodes = mgrs[p].total_nodes * MEM_EXPAND_FACTOR
           /\ ActiveNodes(mgrs[p]) \subseteq ActiveNodes(mgrs'[p])]_vars

\* C20: in an open pool node_heap[0] is active, has no predecessor and lies
\* at offset 0; used_nodes is the number of active nodes and the number of
\* nodes on the chain from node_heap[0]; the walk of mem_inspect_pool visits
\* every active node, and none twice.
C20_ChainCounts ==
    \A p \in OpenPools :
      LET m == mgrs[p]
      IN  /\ Node(m, 0).used = 1
          /\ Node(m, 0).prev = NULL
          /\ Node(m, 0).mem = 0
          /\ m.used_nodes = Cardinality(ActiveNodes(m))
          /\ Chain(m) = ActiveNodes(m)
          /\ Len(Walk(m)) = Cardinality(ActiveNodes(m))
          /\ {Walk(m)[i] : i \in 1 .. Len(Walk(m))} = ActiveNodes(m)

\* a free has merged blocks in a pool that still has three nodes on its
\* chain, and left a released slot of the node heap below an active one
C20_Witness ==
    \E p \in OpenPools :
      /\ last.op = "mem_del_alloc" /\ last.pool = p
      /\ mgrs[p].used_nodes >= 3
      /\ \E j \in ActiveNodes(mgrs[p]) : \E i \in 0 .. (j - 1) : Node(mgrs[p], i).used = 0

\* C21: the node a successful mem_new_alloc returns was, before the call, an
\* active node that is not allocated, on the chain and in the gap index; the
\* call takes one gap index entry of that node away and none of another node
\* that was active before.
C21_SelectsFreeBlock ==
    [][\A p \in MgrIds :
         (AllocStep(p) /\ last'.ret # NULL) =>
           /\ Node(mgrs[p], last'.ret).used = 1
           /\ Node(mgrs[p], last'.ret).allocated = 0
           /\ last'.ret \in Chain(mgrs[p])
           /\ GapEntries(mgrs[p], last'.ret) # {}
           /\ Cardinality(GapEntries(mgrs'[p], last'.ret))
                = Cardinality(GapEntries(mgrs[p], last'.ret)) - 1
           /\ \A x \in ActiveNodes(mgrs[p]) \ {last'.ret} :
                Cardinality(GapEntries(mgrs'[p], x))
                  = Cardinality(GapEntries(mgrs[p], x))]_vars

\* C22: however many times a block smaller than the pool has been allocated
\* and freed, no call ends the process or reaches outside the gap index,
\* gap_ix_capacity does not go below 0, and a request for a block smaller
\* than the pool, made when nothing is allocated, is served.
C22_SustainsCycles ==
    [][\A p \in MgrIds :
         IsOpen(p) =>
           /\ fault' = "none"
           /\ IsOpen(p)' =>
                /\ mgrs'[p].fault = "none"
                /\ mgrs'[p].gap_ix_capacity >= 0
           /\ (AllocStep(p) /\ Pristine(mgrs[p]) /\ last'.arg < mgrs[p].total_size) =>
                last'.ret # NULL]_vars
====
